---------------------------- MODULE Spec2Model ----------------------------
(***************************************************************************)
(* A model of the personal-finance analytics toolkit: the report layer     *)
(* (src/src/reports.py), the view assembler (src/src/views.py) and the     *)
(* cashback / savings services (src/src/services.py).                      *)
(*                                                                         *)
(* Conventions of the model:                                               *)
(*  - money is held in hundredths (1000.50 is 100050), so sums are exact;  *)
(*  - a timestamp is a record [y, m, d, h] (h is the hour of the day);     *)
(*  - the Russian literals of the source are written in English:           *)
(*      "Рабочий" -> "Workday", "Выходной" -> "Weekend",                   *)
(*      "Остальное" -> "Other";                                            *)
(*  - a pandas DataFrame is the sequence of its rows, a list of dicts is   *)
(*    a sequence of records whose DOMAIN is the set of keys present.       *)
(***************************************************************************)
EXTENDS Integers, Sequences, FiniteSets, TLC

VARIABLES
    transactions,       \* the caller's DataFrame (reports.py, views.py)
    transactions_list,  \* the caller's list of dicts (services.py)
    call,               \* the last call: its operation and arguments
    result,             \* what the last call returned or raised
    log,                \* the log records the last call emitted
    report_file,        \* the content of the report file last written
    locals              \* the last call's window and the rows it selected

vars == <<transactions, transactions_list, call, result, log, report_file, locals>>

---------------------------------------------------------------------------
(* Bounds of the model *)

\* longest DataFrame handed to the report functions
MaxRows == 3
\* longest tail appended to the base frames handed to events_page
MaxTail == 2
\* longest list of dicts handed to the services
MaxList == 2

---------------------------------------------------------------------------
(* Generic helpers *)

RECURSIVE SumSeq(_)
SumSeq(s) == IF s = <<>> THEN 0 ELSE Head(s) + SumSeq(Tail(s))

Range(s) == {s[i] : i \in 1..Len(s)}

SeqsUpTo(S, n) == UNION {[1..k -> S] : k \in 0..n}

\* the elements of the finite set S as a sequence of increasing rank; rank
\* is a function giving every element of S its own integer
RECURSIVE SortByRank(_, _)
SortByRank(S, rank) ==
    IF S = {} THEN <<>>
    ELSE LET x == CHOOSE a \in S : \A b \in S : rank[a] <= rank[b]
         IN  <<x>> \o SortByRank(S \ {x}, rank)

---------------------------------------------------------------------------
(* Timestamps (pandas Timestamp / datetime64 values) *)

Ts(y, m, d, h) == [y |-> y, m |-> m, d |-> d, h |-> h]

\* a key that orders timestamps as pandas compares them
TsKey(t) == ((t.y * 12 + (t.m - 1)) * 31 + (t.d - 1)) * 24 + t.h

TsLE(a, b) == TsKey(a) <= TsKey(b)

\* Series.dt.dayofweek: Monday is 0, Sunday is 6
DayOfWeek(t) ==
    LET off == <<0, 3, 2, 5, 0, 3, 5, 1, 4, 6, 2, 4>>
        yy  == IF t.m < 3 THEN t.y - 1 ELSE t.y
        sun == (yy + (yy \div 4) - (yy \div 100) + (yy \div 400) + off[t.m] + t.d) % 7
    IN  (sun + 6) % 7

\* Series.dt.to_period("M")
ToPeriodM(t) == [y |-> t.y, m |-> t.m]

PeriodKey(p) == p.y * 12 + (p.m - 1)

\* pd.to_datetime("2018-01-01") and pd.to_datetime("2021-12-31")
FixedStart == Ts(2018, 1, 1, 0)
FixedEnd   == Ts(2021, 12, 31, 0)

---------------------------------------------------------------------------
(* Rounding *)

\* round(float(x)) of a value held in hundredths: nearest integer, a tie
\* goes to the even neighbour (Python 3)
RoundInt(c) ==
    LET q == c \div 100
        r == c % 100
    IN  IF r < 50 THEN q
        ELSE IF r > 50 THEN q + 1
        ELSE IF q % 2 = 0 THEN q ELSE q + 1

---------------------------------------------------------------------------
(* The report layer: src/src/reports.py *)

\* a DataFrame row of the report functions
Row(date, category, amount) ==
    [date |-> date, category |-> category, amount |-> amount]

\* the rows the report frames are built from: both ends of the fixed
\* window, the days next to them, workdays and weekends, two categories,
\* an income row (negative amount)
ReportRows ==
    { Row(Ts(2017, 12, 31, 0), "Food",      40000),    \* Sunday, before the window
      Row(Ts(2018, 1, 1, 0),   "Food",      100000),   \* Monday, first instant
      Row(Ts(2021, 1, 2, 0),   "Food",      50000),    \* Saturday
      Row(Ts(2021, 1, 15, 0),  "Transport", 50050),    \* Friday
      Row(Ts(2021, 1, 20, 9),  "Food",      -30000),   \* Wednesday, income
      Row(Ts(2021, 12, 31, 0), "Food",      150000),   \* Friday, last instant
      Row(Ts(2021, 12, 31, 12), "Food",     7000),     \* Friday noon, past the end
      Row(Ts(2022, 1, 1, 0),   "Transport", 80000) }   \* Saturday, after the window

ReportFrames == SeqsUpTo(ReportRows, MaxRows)

\* the category arguments tried: two that occur and one that never does
CategoryArgs == {"Food", "Transport", "Missing"}

\* the optional date argument of the report functions
DateArgs == {"None", "2019-02-01"}

\* what the file system does to the report write
IoOutcomes == {"ok", "mkdir_fails", "write_fails"}

\* the mask (date >= start_date) & (date <= ref_date)
InFixedWindow(r) == TsLE(FixedStart, r.date) /\ TsLE(r.date, FixedEnd)

\* a number cell: a value in hundredths over a count, or NaN
Num(n, d) == [nan |-> FALSE, num |-> n, den |-> d]
NaN == [nan |-> TRUE, num |-> 0, den |-> 1]

\* the amount column of a frame
Amounts(s) == [i \in 1..Len(s) |-> s[i].amount]

\* reports.py, spending_by_category, the body under the decorator
CategoryFiltered(df, category) ==
    SelectSeq(df, LAMBDA r : r.category = category /\ InFixedWindow(r))

SpendingByCategoryRows(df, category, date) ==
    LET filtered == CategoryFiltered(df, category)
        periods  == {ToPeriodM(r.date) : r \in Range(filtered)}
        order    == SortByRank(periods, [p \in periods |-> PeriodKey(p)])
    IN  IF filtered = <<>> THEN <<>>
        ELSE [i \in 1..Len(order) |->
                [key |-> order[i],
                 value |-> SumSeq(Amounts(SelectSeq(filtered,
                                LAMBDA r : ToPeriodM(r.date) = order[i])))]]

\* the frame the workday / weekday functions group: the rows in the window
\* with the label column assigned through .loc[:, col] = labels.  When no
\* row is in the window the frame is empty, and assigning a non-empty
\* Series to a column of an empty frame gives the frame the index of the
\* Series: every row of the input comes back with a NaN amount.
WindowFiltered(df) == SelectSeq(df, InFixedWindow)

\* the index of the rows in the window, in row order
WindowIndex(df) ==
    LET inside == {i \in 1..Len(df) : InFixedWindow(df[i])}
    IN  SortByRank(inside, [i \in inside |-> i])

\* labels is the label Series computed over every row of df
Labelled(df, labels) ==
    LET index == WindowIndex(df)
    IN  IF index = <<>>
        THEN [i \in 1..Len(df) |-> [key |-> labels[i], nan |-> TRUE, amount |-> 0]]
        ELSE [k \in 1..Len(index) |->
                [key |-> labels[index[k]], nan |-> FALSE, amount |-> df[index[k]].amount]]

\* GroupBy.mean: NaN cells are skipped, a group with no number gives NaN
GroupMean(f, k) ==
    LET cells == SelectSeq(f, LAMBDA r : r.key = k /\ ~r.nan)
    IN  IF cells = <<>> THEN NaN ELSE Num(SumSeq(Amounts(cells)), Len(cells))

\* groupby(col)[amount].mean().reset_index(): one row per key that occurs,
\* in the sort order of the keys
GroupedMeans(f, rank) ==
    LET keys  == {r.key : r \in Range(f)}
        order == SortByRank(keys, [k \in keys |-> rank[k]])
    IN  [i \in 1..Len(order) |-> [key |-> order[i], value |-> GroupMean(f, order[i])]]

\* the lambda of spending_by_workday
DayType(r) == IF DayOfWeek(r.date) >= 5 THEN "Weekend" ELSE "Workday"

\* "Выходной" sorts before "Рабочий"
DayTypeRank == [k \in {"Weekend", "Workday"} |-> IF k = "Weekend" THEN 0 ELSE 1]

SpendingByWorkdayRows(df, date) ==
    GroupedMeans(Labelled(df, [i \in 1..Len(df) |-> DayType(df[i])]), DayTypeRank)

\* Series.dt.day_name()
DayNames == <<"Monday", "Tuesday", "Wednesday", "Thursday", "Friday", "Saturday", "Sunday">>
DayName(r) == DayNames[DayOfWeek(r.date) + 1]

\* the sort order of the English day names
DayNameRank ==
    [k \in Range(DayNames) |->
        CHOOSE i \in 1..7 :
            <<"Friday", "Monday", "Saturday", "Sunday", "Thursday", "Tuesday", "Wednesday">>[i] = k]

\* a slip: a date, when given, ends the window
SpendingByWeekdayRowsUpToDate(df, date) ==
    LET upto == IF date = "None" THEN df
                ELSE SelectSeq(df, LAMBDA r : TsLE(r.date, Ts(2019, 2, 1, 0)))
    IN  GroupedMeans(Labelled(upto, [i \in 1..Len(upto) |-> DayName(upto[i])]), DayNameRank)

SpendingByWeekdayRows(df, date) ==
    GroupedMeans(Labelled(df, [i \in 1..Len(df) |-> DayName(df[i])]), DayNameRank)

\* report_to_file: the wrapper around a report function that returned rows
Returned(value) == [kind |-> "ok", value |-> value]
Raised(error) == [kind |-> "raise", error |-> error]
LogRec(level, msg) == [level |-> level, msg |-> msg]

ReportToFile(report_name, rows, io, old_file) ==
    IF io = "mkdir_fails"
    THEN [result |-> Raised("OSError"), log |-> <<>>, file |-> old_file]
    ELSE IF io = "write_fails"
    THEN [result |-> Returned(rows),
          log |-> <<LogRec("error", "report not saved")>>,
          file |-> old_file]
    ELSE [result |-> Returned(rows),
          log |-> <<LogRec("info", "report saved")>>,
          file |-> [name |-> report_name, content |-> rows]]

Locals(start_date, end_date, filtered) ==
    [start_date |-> start_date, end_date |-> end_date, filtered |-> filtered]

\* a cell of the date column is a Timestamp (a record y, m, d, h) or a str:
\* the tagged value of the services, "iso" for text that reads as
\* YYYY-MM-DD and "text" for text that reads as no date
IsStr(cell) == "t" \in DOMAIN cell

\* the cells pd.to_datetime cannot read
Unparsable(cell) == IsStr(cell) /\ cell.t # "iso"

\* pd.to_datetime of a cell it can read
ToDatetime(cell) == IF IsStr(cell) THEN Ts(cell.y, cell.m, cell.d, 0) ELSE cell

\* the frame with its date column replaced by pd.to_datetime of it
Converted(df) ==
    [i \in 1..Len(df) |-> [df[i] EXCEPT !.date = ToDatetime(df[i].date)]]

\* what the first argument of a report call is: the caller's DataFrame, or a
\* value that is no DataFrame (a str, None, a list, a dict without the
\* columns)
PassedArgs == {"DataFrame", "str", "NoneType", "list", "dict"}

\* what the body of a report function did: the rows it returned or the
\* exception it raised, the caller's frame as it left it, the rows selected
BodyReturned(rows, frame, filtered) ==
    [kind |-> "ok", rows |-> rows, frame |-> frame, filtered |-> filtered]
BodyRaised(error, frame) ==
    [kind |-> "raise", error |-> error, frame |-> frame, filtered |-> <<>>]

\* the first subscript with a column name, transactions["..."], on a value
\* that is no DataFrame
SubscriptError(passed) == IF passed = "dict" THEN "KeyError" ELSE "TypeError"

\* reports.py lines 61-91: line 71 replaces the date column of the caller's
\* frame by its conversion, and raises when a cell does not parse
SpendingByCategoryBody(passed, df, category, date) ==
    IF passed # "DataFrame" THEN BodyRaised(SubscriptError(passed), df)
    ELSE IF \E i \in 1..Len(df) : Unparsable(df[i].date) THEN BodyRaised("ValueError", df)
    ELSE BodyReturned(SpendingByCategoryRows(Converted(df), category, date),
                      Converted(df), CategoryFiltered(Converted(df), category))

\* reports.py lines 97-113 and 122-141, up to the selection: op_date is
\* read with the first format, then with the second (no str cell of the
\* model reads under "%d.%m.%Y %H:%M:%S"); the column itself is left as it
\* is, and comparing a str cell with a Timestamp raises TypeError
WindowError(passed, df) ==
    IF passed # "DataFrame" THEN SubscriptError(passed)
    ELSE IF \E i \in 1..Len(df) : Unparsable(df[i].date) THEN "ValueError"
    ELSE IF \E i \in 1..Len(df) : IsStr(df[i].date) THEN "TypeError"
    ELSE "none"

SpendingByWeekdayBody(passed, df, date) ==
    IF WindowError(passed, df) # "none" THEN BodyRaised(WindowError(passed, df), df)
    ELSE BodyReturned(SpendingByWeekdayRows(df, date), df, WindowFiltered(df))

SpendingByWorkdayBody(passed, df, date) ==
    IF WindowError(passed, df) # "none" THEN BodyRaised(WindowError(passed, df), df)
    ELSE BodyReturned(SpendingByWorkdayRows(df, date), df, WindowFiltered(df))

\* a slip: the exception of the body passes without a log record
WrappedUnlogged(report_name, body, io, old_file) ==
    IF body.kind = "raise"
    THEN [result |-> Raised(body.error), log |-> <<>>, file |-> old_file]
    ELSE ReportToFile(report_name, body.rows, io, old_file)

\* the except clause of the body (logger.error, raise) under the wrapper:
\* an exception of the body leaves the wrapper at line 26
Wrapped(report_name, body, io, old_file) ==
    IF body.kind = "raise"
    THEN [result |-> Raised(body.error),
          log |-> <<LogRec("error", "report function failed")>>,
          file |-> old_file]
    ELSE ReportToFile(report_name, body.rows, io, old_file)

\* one call is made on the collection drawn at the start
Idle == call.op = "none"

spending_by_category ==
    \E passed \in PassedArgs, category \in CategoryArgs, date \in DateArgs, io \in IoOutcomes :
        LET body == SpendingByCategoryBody(passed, transactions, category, date)
            w    == Wrapped("report_spending_by_category", body, io, report_file)
        IN  /\ Idle
            /\ call' = [op |-> "spending_by_category", io |-> io,
                        args |-> [transactions |-> passed, category |-> category,
                                  date |-> date]]
            /\ result' = w.result
            /\ log' = w.log
            /\ report_file' = w.file
            /\ locals' = Locals(FixedStart, FixedEnd, body.filtered)
            /\ transactions' = body.frame
            /\ UNCHANGED transactions_list

spending_by_weekday ==
    \E passed \in PassedArgs, date \in DateArgs, io \in IoOutcomes :
        LET body == SpendingByWeekdayBody(passed, transactions, date)
            w    == Wrapped("report_spending_by_weekday", body, io, report_file)
        IN  /\ Idle
            /\ call' = [op |-> "spending_by_weekday", io |-> io,
                        args |-> [transactions |-> passed, date |-> date]]
            /\ result' = w.result
            /\ log' = w.log
            /\ report_file' = w.file
            /\ locals' = Locals(FixedStart, FixedEnd, body.filtered)
            /\ transactions' = body.frame
            /\ UNCHANGED transactions_list

spending_by_workday ==
    \E passed \in PassedArgs, date \in DateArgs, io \in IoOutcomes :
        LET body == SpendingByWorkdayBody(passed, transactions, date)
            w    == Wrapped("workday_spending_report.json", body, io, report_file)
        IN  /\ Idle
            /\ call' = [op |-> "spending_by_workday", io |-> io,
                        args |-> [transactions |-> passed, date |-> date]]
            /\ result' = w.result
            /\ log' = w.log
            /\ report_file' = w.file
            /\ locals' = Locals(FixedStart, FixedEnd, body.filtered)
            /\ transactions' = body.frame
            /\ UNCHANGED transactions_list

NoCall == [op |-> "none"]
NoResult == [kind |-> "none"]
NoFile == [name |-> "none", content |-> <<>>]
NoLocals == Locals(FixedStart, FixedEnd, <<>>)

InitReports ==
    /\ transactions \in ReportFrames
    /\ transactions_list = <<>>
    /\ call = NoCall
    /\ result = NoResult
    /\ log = <<>>
    /\ report_file = NoFile
    /\ locals = NoLocals

NextReports ==
    \/ spending_by_category
    \/ spending_by_weekday
    \/ spending_by_workday

SpecReports == InitReports /\ [][NextReports]_vars

---------------------------------------------------------------------------
(* The view assembler: src/src/views.py, events_page *)

\* nlargest(7)
TopN == 7

\* the categories of the event frames, in the sort order of their names
CategoryOrder ==
    <<"Cat1", "Cat2", "Cat3", "Cat4", "Cat5", "Cat6", "Cat7", "Cat8", "Cat9",
      "Food", "Refund", "Salary", "Transport">>

CategoryRank == [c \in Range(CategoryOrder) |->
                    CHOOSE i \in 1..Len(CategoryOrder) : CategoryOrder[i] = c]

\* seven categories with an expense each, all in the last week of 2021
SevenCategories ==
    << Row(Ts(2021, 12, 28, 0), "Cat1", 10050),
       Row(Ts(2021, 12, 28, 0), "Cat2", 20150),
       Row(Ts(2021, 12, 28, 0), "Cat3", 30025),
       Row(Ts(2021, 12, 28, 0), "Cat4", 40000),
       Row(Ts(2021, 12, 28, 0), "Cat5", 50000),
       Row(Ts(2021, 12, 28, 0), "Cat6", 60000),
       Row(Ts(2021, 12, 28, 0), "Cat7", 6000) >>

\* the rows appended to them: an eighth and a ninth category, small, large
\* and tied with the seventh; rows before, inside and after every window;
\* income rows; a zero amount
EventRows ==
    { Row(Ts(2021, 12, 28, 0),  "Cat8",   2000),
      Row(Ts(2021, 12, 28, 0),  "Cat8",   90000),
      Row(Ts(2021, 12, 29, 0),  "Cat8",   6000),
      Row(Ts(2021, 12, 10, 0),  "Cat9",   1550),
      Row(Ts(2021, 3, 3, 0),    "Cat1",   50),
      Row(Ts(2021, 12, 28, 15), "Salary", -50000),
      Row(Ts(2020, 5, 5, 0),    "Refund", -50),
      Row(Ts(2021, 12, 28, 0),  "Cat2",   -1000),
      Row(Ts(2022, 2, 2, 0),    "Cat8",   3000),
      Row(Ts(2017, 6, 10, 0),   "Cat8",   2500),
      Row(Ts(2021, 12, 30, 0),  "Cat9",   0) }

EventFrames ==
    {base \o tail : base \in {<<>>, SevenCategories}, tail \in SeqsUpTo(EventRows, MaxTail)}

\* the date_range arguments: the three the code names, and two it does not
DateRangeArgs == {"ALL", "Y", "M", "W", "INVALID"}

\* the date_str arguments, as the instants they spell
DateStrArgs == {Ts(2021, 12, 15, 12), Ts(2021, 6, 15, 12)}

\* what the settings file and the Market Data Gateway do
GatewayOutcomes == {"ok", "settings_fails", "currency_rates_fails", "stock_prices_fails"}

\* a slip: the default window of an unnamed range is the month, not the week
EventsStartDateMonthDefault(date_str, date_range) ==
    IF date_range = "ALL" THEN Ts(2018, 1, 1, 0)
    ELSE IF date_range = "Y" THEN Ts(2021, 1, 1, 0)
    ELSE Ts(2021, 12, 1, 0)

\* views.py lines 102-110: the window of a date_range
EventsStartDate(date_str, date_range) ==
    IF date_range = "ALL" THEN Ts(2018, 1, 1, 0)
    ELSE IF date_range = "Y" THEN Ts(2021, 1, 1, 0)
    ELSE IF date_range = "M" THEN Ts(2021, 12, 1, 0)
    ELSE Ts(2021, 12, 25, 0)

EventsEndDate(date_str, date_range) == Ts(2021, 12, 31, 0)

\* views.py lines 112-118: the first selection, by both ends of the window,
\* is replaced by the second, which keeps every row from start_date on
EventsFiltered(df, start_date, end_date) ==
    SelectSeq(df, LAMBDA r : TsLE(start_date, r.date))

\* groupby("Категория")["Сумма операции"].sum(): one row per category that
\* occurs, in the sort order of the categories
SumByCategory(f) ==
    LET cats  == {r.category : r \in Range(f)}
        order == SortByRank(cats, [c \in cats |-> CategoryRank[c]])
    IN  [i \in 1..Len(order) |->
            [category |-> order[i],
             amount |-> SumSeq(Amounts(SelectSeq(f, LAMBDA r : r.category = order[i])))]]

\* a slip: head(n) in place of nlargest(n)
FirstN(s, n) == SubSeq(s, 1, IF n < Len(s) THEN n ELSE Len(s))

\* Series.nlargest(n): the n largest amounts, largest first, the earlier
\* row first among equal amounts
RECURSIVE NLargest(_, _)
NLargest(s, n) ==
    IF n = 0 \/ s = <<>> THEN <<>>
    ELSE LET i == CHOOSE j \in 1..Len(s) :
                    /\ \A k \in 1..Len(s) : s[k].amount <= s[j].amount
                    /\ \A k \in 1..(j - 1) : s[k].amount < s[j].amount
             rest == [k \in 1..(Len(s) - 1) |-> IF k < i THEN s[k] ELSE s[k + 1]]
         IN  <<s[i]>> \o NLargest(rest, n - 1)

Entry(category, amount) == [category |-> category, amount |-> amount]

Rounded(s) == [i \in 1..Len(s) |-> Entry(s[i].category, RoundInt(s[i].amount))]

\* views.py lines 120-143
ExpensesData(filtered) ==
    LET expenses             == SelectSeq(filtered, LAMBDA r : r.amount > 0)
        expenses_by_category == SumByCategory(expenses)
        main_expenses        == NLargest(expenses_by_category, TopN)
        other_expenses       == SumSeq(Amounts(expenses_by_category))
                                    - SumSeq(Amounts(main_expenses))
        main_categories      == Rounded(main_expenses)
        stub                 == <<Entry("Cash", 0), Entry("Transfers", 0)>>
    IN  IF expenses = <<>>
        THEN [total_amount |-> 0, main |-> <<>>, transfers_and_cash |-> stub]
        ELSE [total_amount |-> RoundInt(SumSeq(Amounts(expenses_by_category))),
              main |-> IF other_expenses > 0
                       THEN Append(main_categories, Entry("Other", RoundInt(other_expenses)))
                       ELSE main_categories,
              transfers_and_cash |-> stub]

Abs(x) == IF x < 0 THEN -x ELSE x

\* views.py lines 145-153
IncomeData(filtered) ==
    LET income             == SelectSeq(filtered, LAMBDA r : r.amount < 0)
        sums               == SumByCategory(income)
        income_by_category == [i \in 1..Len(sums) |->
                                  Entry(sums[i].category, Abs(sums[i].amount))]
    IN  IF income = <<>>
        THEN [total_amount |-> 0, main |-> <<>>]
        ELSE [total_amount |-> RoundInt(SumSeq(Amounts(income_by_category))),
              main |-> Rounded(income_by_category)]

\* a slip: a gateway call that failed is made a second time
GatewayLogRetried(gw) ==
    IF gw = "currency_rates_fails"
    THEN <<LogRec("error", "currency rates failed"), LogRec("error", "currency rates failed")>>
    ELSE IF gw = "stock_prices_fails"
    THEN <<LogRec("error", "stock prices failed"), LogRec("error", "stock prices failed")>>
    ELSE <<>>

\* utils.py lines 78-80 and 110-112: a gateway call that fails logs its
\* error once and raises it again
GatewayLog(gw) ==
    IF gw = "currency_rates_fails" THEN <<LogRec("error", "currency rates failed")>>
    ELSE IF gw = "stock_prices_fails" THEN <<LogRec("error", "stock prices failed")>>
    ELSE <<>>

\* the exception that leaves the settings file or the gateway: open() fails
\* with an OSError, the currency call here with requests' RequestException,
\* the stock call with requests' Timeout
GatewayError(gw) ==
    IF gw = "settings_fails" THEN "OSError"
    ELSE IF gw = "currency_rates_fails" THEN "RequestException"
    ELSE "Timeout"

\* views.py lines 98-166: the payload is built, then the settings are read
\* and the gateway is asked; whatever raises is logged and raised again.
\* The selection of line 112 compares the date column with a Timestamp,
\* which raises TypeError on a str cell.
events_page ==
    \E date_str \in DateStrArgs, date_range \in DateRangeArgs, gw \in GatewayOutcomes :
        LET start_date == EventsStartDate(date_str, date_range)
            end_date   == EventsEndDate(date_str, date_range)
            filtered   == EventsFiltered(transactions, start_date, end_date)
        IN  /\ Idle
            /\ call' = [op |-> "events_page", gw |-> gw,
                        args |-> [date_str |-> date_str, date_range |-> date_range]]
            /\ IF \E i \in 1..Len(transactions) : IsStr(transactions[i].date)
               THEN /\ result' = Raised("TypeError")
                    /\ log' = <<LogRec("error", "events page failed")>>
                    /\ locals' = Locals(start_date, end_date, <<>>)
               ELSE IF gw = "ok"
               THEN /\ result' = Returned([expenses |-> ExpensesData(filtered),
                                           income |-> IncomeData(filtered),
                                           currency_rates |-> "rates",
                                           stock_prices |-> "prices"])
                    /\ log' = <<>>
                    /\ locals' = Locals(start_date, end_date, filtered)
               ELSE /\ result' = Raised(GatewayError(gw))
                    /\ log' = Append(GatewayLog(gw), LogRec("error", "events page failed"))
                    /\ locals' = Locals(start_date, end_date, filtered)
            /\ UNCHANGED <<transactions, transactions_list, report_file>>

InitEvents ==
    /\ transactions \in EventFrames
    /\ transactions_list = <<>>
    /\ call = NoCall
    /\ result = NoResult
    /\ log = <<>>
    /\ report_file = NoFile
    /\ locals = NoLocals

NextEvents == events_page

SpecEvents == InitEvents /\ [][NextEvents]_vars

---------------------------------------------------------------------------
(* The cashback and savings services: src/src/services.py *)

\* the values a dict holds under a key: a date string that "%Y-%m-%d"
\* parses, a number, a string that is neither, or None
IsoDate(y, m, d) == [t |-> "iso", y |-> y, m |-> m, d |-> d]
BadDate == [t |-> "text", y |-> 0, m |-> 0, d |-> 0]
NoneDate == [t |-> "none", y |-> 0, m |-> 0, d |-> 0]
Number(v) == [t |-> "num", v |-> v]
Text == [t |-> "text", v |-> 0]
None == [t |-> "none", v |-> 0]

\* the dicts the lists are built from; a key left out is a key absent
ServiceRecords ==
    { [date |-> IsoDate(2021, 1, 15), category |-> "Supermarkets",
       amount |-> Number(100050), cashback |-> Number(5025)],
      [date |-> IsoDate(2021, 1, 20), category |-> "Supermarkets",
       amount |-> Number(103000), cashback |-> Number(0)],
      [date |-> IsoDate(2021, 1, 5), category |-> "Transfers",
       amount |-> Number(100000)],
      [date |-> IsoDate(2021, 12, 10), category |-> "Restaurants",
       amount |-> Number(200075), cashback |-> Number(10050)],
      [date |-> IsoDate(2022, 1, 10), category |-> "Restaurants",
       amount |-> Number(103000), cashback |-> Number(700)],
      [date |-> IsoDate(2021, 1, 25), category |-> "Salary",
       amount |-> Number(-50000), cashback |-> Number(-100)],
      [category |-> "Supermarkets"],
      [date |-> BadDate, category |-> "Supermarkets",
       amount |-> Number(1000), cashback |-> Number(300)],
      [date |-> IsoDate(2021, 1, 15), category |-> "Supermarkets",
       amount |-> None, cashback |-> None],
      [date |-> IsoDate(2021, 1, 15),
       amount |-> Number(103000), cashback |-> Number(500)],
      [date |-> IsoDate(2021, 12, 10), category |-> "Restaurants",
       amount |-> Text, cashback |-> Text] }

ServiceLists == SeqsUpTo(ServiceRecords, MaxList)

Has(t, key) == key \in DOMAIN t

\* the loop state: the accumulator, the log, and the exception that ended
\* the loop ("none" while it runs)
LoopState(acc, lg, error) == [acc |-> acc, log |-> lg, error |-> error]

Skipped == LogRec("warning", "record skipped")
YearClamped == LogRec("warning", "year clamped")

\* a slip: a cashback of 0 counts
PositiveCashbackOrZero(cashback) == cashback >= 0

\* services.py line 40
PositiveCashback(cashback) == cashback > 0

\* services.py lines 34-45: one pass of the loop body.  KeyError and
\* ValueError are caught (warning, next record); the TypeError of
\* strptime(None) or float(None) is not.
CashbackStep(st, t, year, month) ==
    IF ~Has(t, "date") THEN LoopState(st.acc, Append(st.log, Skipped), "none")
    ELSE IF t.date.t = "none" THEN LoopState(st.acc, st.log, "TypeError")
    ELSE IF t.date.t = "text" THEN LoopState(st.acc, Append(st.log, Skipped), "none")
    ELSE IF ~(t.date.y = year /\ t.date.m = month) THEN st
    ELSE IF ~Has(t, "category") THEN LoopState(st.acc, Append(st.log, Skipped), "none")
    ELSE LET raw == IF Has(t, "cashback") THEN t.cashback ELSE Number(0)
         IN  IF raw.t = "none" THEN LoopState(st.acc, st.log, "TypeError")
             ELSE IF raw.t = "text" THEN LoopState(st.acc, Append(st.log, Skipped), "none")
             ELSE IF PositiveCashback(raw.v)
             THEN LET old == IF t.category \in DOMAIN st.acc THEN st.acc[t.category] ELSE 0
                  IN  LoopState([c \in DOMAIN st.acc \cup {t.category} |->
                                    IF c = t.category THEN old + raw.v ELSE st.acc[c]],
                                st.log, "none")
             ELSE st

RECURSIVE CashbackLoop(_, _, _, _)
CashbackLoop(st, txns, year, month) ==
    IF txns = <<>> \/ st.error # "none" THEN st
    ELSE CashbackLoop(CashbackStep(st, Head(txns), year, month), Tail(txns), year, month)

\* an empty dict
EmptyDict == [c \in {} |-> 0]

\* a slip: the year given is kept
ClampYearKeeps(year) == year

\* services.py lines 25-29 (and 66-68)
ClampYear(year) == IF 2018 <= year /\ year <= 2021 THEN year ELSE 2021
ClampMonth(month) == IF 1 <= month /\ month <= 12 THEN month ELSE 12

\* services.py lines 25-47
ProfitableCashbackCategories(txns, year, month) ==
    LET warned == IF 2018 <= year /\ year <= 2021 THEN <<>> ELSE <<YearClamped>>
        st     == CashbackLoop(LoopState(EmptyDict, warned, "none"), txns,
                               ClampYear(year), ClampMonth(month))
    IN  [result |-> IF st.error = "none" THEN Returned(st.acc) ELSE Raised(st.error),
         log |-> st.log]

YearArgs == {2017, 2020, 2021, 2022}
MonthArgs == {0, 1, 12, 13}

profitable_cashback_categories ==
    \E year \in YearArgs, month \in MonthArgs :
        LET r == ProfitableCashbackCategories(transactions_list, year, month)
        IN  /\ Idle
            /\ call' = [op |-> "profitable_cashback_categories",
                        args |-> [year |-> year, month |-> month]]
            /\ result' = r.result
            /\ log' = r.log
            /\ UNCHANGED <<transactions, transactions_list, report_file, locals>>

\* a month string, as the parts month.split("-") gives: a part is the
\* integer int() reads from it, or text int() rejects
IntPart(v) == [t |-> "int", v |-> v]
TextPart == [t |-> "text", v |-> 0]

MonthStrings ==
    { <<IntPart(2021), IntPart(1)>>,      \* "2021-01"
      <<IntPart(2021), IntPart(12)>>,     \* "2021-12"
      <<IntPart(2022), IntPart(1)>>,      \* "2022-01"
      <<IntPart(2017), IntPart(12)>>,     \* "2017-12"
      <<IntPart(2021), IntPart(13)>>,     \* "2021-13"
      <<IntPart(2021), IntPart(0)>>,      \* "2021-00"
      <<IntPart(2021)>>,                  \* "2021"
      <<TextPart, IntPart(1)>>,           \* "jan-01"
      <<IntPart(2021), IntPart(1), IntPart(5)>> }   \* "2021-01-05"

RoundingLimits == {50, 100, 0, -100}

\* a slip: the month number is left unchecked
InvestmentBankArgsAnyMonth(month, rounding_limit) ==
    IF Len(month) # 2 \/ \E i \in 1..Len(month) : month[i].t # "int"
    THEN [ok |-> FALSE, year |-> 0, month_num |-> 0, log |-> <<>>]
    ELSE [ok |-> rounding_limit > 0,
          year |-> ClampYear(month[1].v), month_num |-> month[2].v,
          log |-> IF ClampYear(month[1].v) = month[1].v THEN <<>> ELSE <<YearClamped>>]

\* services.py lines 64-74: year, month_num = map(int, month.split("-")),
\* the clamp of the year and the two checks; every failure is a ValueError
InvestmentBankArgs(month, rounding_limit) ==
    IF Len(month) # 2 \/ \E i \in 1..Len(month) : month[i].t # "int"
    THEN [ok |-> FALSE, year |-> 0, month_num |-> 0, log |-> <<>>]
    ELSE [ok |-> 1 <= month[2].v /\ month[2].v <= 12 /\ rounding_limit > 0,
          year |-> ClampYear(month[1].v), month_num |-> month[2].v,
          log |-> IF ClampYear(month[1].v) = month[1].v THEN <<>> ELSE <<YearClamped>>]

\* a slip: a whole limit is saved on an amount that is already a multiple
SavingsAlways(amount, rounding_limit) == rounding_limit * 100 - (amount % (rounding_limit * 100))

\* services.py lines 84-87: the saving on one expense, in hundredths
Savings(amount, rounding_limit) ==
    LET remainder == amount % (rounding_limit * 100)
    IN  IF remainder > 0 THEN rounding_limit * 100 - remainder ELSE 0

\* services.py lines 79-90: one pass of the loop body
InvestmentStep(st, t, year, month_num, rounding_limit) ==
    IF ~Has(t, "date") THEN LoopState(st.acc, Append(st.log, Skipped), "none")
    ELSE IF t.date.t = "none" THEN LoopState(st.acc, st.log, "TypeError")
    ELSE IF t.date.t = "text" THEN LoopState(st.acc, Append(st.log, Skipped), "none")
    ELSE IF ~(t.date.y = year /\ t.date.m = month_num) THEN st
    ELSE IF ~Has(t, "amount") THEN LoopState(st.acc, Append(st.log, Skipped), "none")
    ELSE IF t.amount.t = "none" THEN LoopState(st.acc, st.log, "TypeError")
    ELSE IF t.amount.t = "text" THEN LoopState(st.acc, Append(st.log, Skipped), "none")
    ELSE IF t.amount.v > 0
    THEN LoopState(st.acc + Savings(t.amount.v, rounding_limit), st.log, "none")
    ELSE st

RECURSIVE InvestmentLoop(_, _, _, _, _)
InvestmentLoop(st, txns, year, month_num, rounding_limit) ==
    IF txns = <<>> \/ st.error # "none" THEN st
    ELSE InvestmentLoop(InvestmentStep(st, Head(txns), year, month_num, rounding_limit),
                        Tail(txns), year, month_num, rounding_limit)

\* services.py lines 64-92; round(total_savings, 2) leaves a sum of
\* hundredths as it is
InvestmentBank(month, txns, rounding_limit) ==
    LET args == InvestmentBankArgs(month, rounding_limit)
        st   == InvestmentLoop(LoopState(0, args.log, "none"), txns,
                               args.year, args.month_num, rounding_limit)
    IN  IF ~args.ok THEN [result |-> Raised("ValueError"), log |-> args.log]
        ELSE [result |-> IF st.error = "none" THEN Returned(st.acc) ELSE Raised(st.error),
              log |-> st.log]

investment_bank ==
    \E month \in MonthStrings, rounding_limit \in RoundingLimits :
        LET r == InvestmentBank(month, transactions_list, rounding_limit)
        IN  /\ Idle
            /\ call' = [op |-> "investment_bank",
                        args |-> [month |-> month, rounding_limit |-> rounding_limit]]
            /\ result' = r.result
            /\ log' = r.log
            /\ UNCHANGED <<transactions, transactions_list, report_file, locals>>

InitServices ==
    /\ transactions = <<>>
    /\ transactions_list \in ServiceLists
    /\ call = NoCall
    /\ result = NoResult
    /\ log = <<>>
    /\ report_file = NoFile
    /\ locals = NoLocals

NextServices ==
    \/ profitable_cashback_categories
    \/ investment_bank

SpecServices == InitServices /\ [][NextServices]_vars

---------------------------------------------------------------------------
(* The report and view functions on frames as the Excel file gives them:  *)
(* the date column may hold str cells                                      *)

\* longest DataFrame with str cells
MaxRaw == 2

\* rows with Timestamp cells and rows with str cells: dates that read as
\* YYYY-MM-DD and one that reads as no date
RawRows ==
    { Row(Ts(2021, 1, 15, 0),  "Transport", 50050),
      Row(Ts(2021, 1, 2, 0),   "Food",      50000),
      Row(IsoDate(2021, 1, 15), "Food",     100000),
      Row(IsoDate(2021, 2, 1),  "Food",     150000),
      Row(BadDate,              "Food",     70000) }

RawFrames == SeqsUpTo(RawRows, MaxRaw)

InitInputs ==
    /\ transactions \in RawFrames
    /\ transactions_list = <<>>
    /\ call = NoCall
    /\ result = NoResult
    /\ log = <<>>
    /\ report_file = NoFile
    /\ locals = NoLocals

NextInputs ==
    \/ spending_by_category
    \/ spending_by_weekday
    \/ spending_by_workday
    \/ events_page

SpecInputs == InitInputs /\ [][NextInputs]_vars

---------------------------------------------------------------------------
(* The view assembler: src/src/views.py, home_page, and src/src/utils.py *)

\* nlargest(5, "Сумма операции")
TopTransactions == 5

\* a card number cell: the str of the number, or NaN / None
Card(number) == [t |-> "str", v |-> number]
NoCard == [t |-> "none", v |-> ""]

\* a row of the table load_transactions reads from operations.xlsx
HomeRow(date, card, amount, cashback, category, description) ==
    [date |-> date, card |-> card, amount |-> amount, cashback |-> cashback,
     category |-> category, description |-> description]

\* the four rows of the fixture: two cards, a row without a card
HomeBase ==
    << HomeRow(Ts(2021, 1, 1, 0), Card("1234567890123456"), 100050, 1005, "Cat1", "Supermarket"),
       HomeRow(Ts(2021, 1, 2, 0), Card("1234567890123456"), 200075, 2007, "Cat2", "Taxi"),
       HomeRow(Ts(2021, 1, 3, 0), Card("9876543210987654"), 300025, 3002, "Cat3", "Cinema"),
       HomeRow(Ts(2021, 1, 4, 0), NoCard, -50000, 0, "Salary", "Salary") >>

\* the rows appended to them: both ends of the window and the days next to
\* them, card numbers of 3, 4 and 5 characters, two numbers with the same
\* last four characters, a refund on a card, a large amount without a card
HomeRows ==
    { HomeRow(Ts(2021, 12, 31, 0),  Card("*7197"), 15000, 150, "Cat1", "Shop"),
      HomeRow(Ts(2021, 12, 31, 12), Card("*7197"), 7000, 70, "Cat1", "Shop"),
      HomeRow(Ts(2022, 1, 1, 0),    Card("1234567890123456"), 80000, 800, "Cat2", "Taxi"),
      HomeRow(Ts(2017, 12, 31, 0),  Card("123"), 900, 9, "Cat2", "Taxi"),
      HomeRow(Ts(2021, 6, 1, 0),    Card("123"), 4000, 40, "Cat3", "Cinema"),
      HomeRow(Ts(2021, 6, 2, 0),    Card("4556"), 300025, 50, "Cat3", "Cinema"),
      HomeRow(Ts(2021, 6, 3, 12),   Card("0000000000003456"), 600, 6, "Cat1", "Shop"),
      HomeRow(Ts(2021, 6, 4, 0),    Card("1234567890123456"), -2500, 0, "Refund", "Refund"),
      HomeRow(Ts(2021, 6, 5, 0),    NoCard, 500000, 0, "Cat4", "Cash") }

HomeFrames ==
    {base \o tail : base \in {<<>>, HomeBase}, tail \in SeqsUpTo(HomeRows, MaxTail)}

\* the date_str arguments: the instants well-formed strings spell, and a
\* string that "%Y-%m-%d %H:%M:%S" does not read
HomeDateArgs == {Ts(2021, 1, 1, 12), Ts(2021, 6, 15, 3), Ts(2021, 6, 15, 23), BadDate}

\* what load_transactions does: the table, or FileNotFoundError
LoadOutcomes == {"ok", "not_found"}

\* a slip: noon still counts as morning
GetGreetingNoonMorning(time) ==
    IF 5 <= time.h /\ time.h <= 12 THEN "good morning"
    ELSE IF 12 <= time.h /\ time.h < 17 THEN "good afternoon"
    ELSE IF 17 <= time.h /\ time.h < 23 THEN "good evening"
    ELSE "good night"

\* utils.py lines 43-52; "Доброе утро", "Добрый день", "Добрый вечер",
\* "Доброй ночи"
GetGreeting(time) ==
    IF 5 <= time.h /\ time.h < 12 THEN "good morning"
    ELSE IF 12 <= time.h /\ time.h < 17 THEN "good afternoon"
    ELSE IF 17 <= time.h /\ time.h < 23 THEN "good evening"
    ELSE "good night"

\* a slip: the cashback column is not asked for
RequiredColumnsNoCashback == {"date", "card", "amount", "category", "description"}

\* views.py line 33
RequiredColumns == {"date", "card", "amount", "cashback", "category", "description"}

\* the columns operations.xlsx may have: the six, the six and "Статус",
\* and the six less one
ColumnSets ==
    {RequiredColumns, RequiredColumns \cup {"status"}}
        \cup {RequiredColumns \ {c} : c \in RequiredColumns}

\* views.py lines 34-35: the required columns the table does not have
MissingColumns(columns) == RequiredColumns \ columns

\* views.py line 50
LastDigits(card_str) ==
    IF Len(card_str) > 4 THEN SubSeq(card_str, Len(card_str) - 3, Len(card_str))
    ELSE card_str

\* views.py line 48: dropna().unique(), the numbers in the order in which
\* they first occur
UniqueCards(filtered) ==
    LET first == {i \in 1..Len(filtered) :
                    /\ filtered[i].card.t # "none"
                    /\ \A j \in 1..(i - 1) : filtered[j].card # filtered[i].card}
        order == SortByRank(first, [i \in first |-> i])
    IN  [k \in 1..Len(order) |-> filtered[order[k]].card.v]

\* the cashback column of a frame
Cashbacks(s) == [i \in 1..Len(s) |-> s[i].cashback]

\* views.py lines 46-60; round(x, 2) leaves a sum of hundredths as it is
CardsData(filtered) ==
    LET cards == UniqueCards(filtered)
    IN  [k \in 1..Len(cards) |->
            LET card_trans == SelectSeq(filtered, LAMBDA r : r.card = Card(cards[k]))
            IN  [last_digits |-> LastDigits(cards[k]),
                 total_spent |-> SumSeq(Amounts(card_trans)),
                 cashback |-> SumSeq(Cashbacks(card_trans))]]

\* strftime("%d.%m.%Y")
DayMonthYear(t) == [d |-> t.d, m |-> t.m, y |-> t.y]

\* views.py lines 62-73
TopTransList(filtered) ==
    LET top_transactions == NLargest(filtered, TopTransactions)
    IN  [i \in 1..Len(top_transactions) |->
            [date |-> DayMonthYear(top_transactions[i].date),
             amount |-> top_transactions[i].amount,
             category |-> top_transactions[i].category,
             description |-> top_transactions[i].description]]

\* views.py lines 19-95: the first step that fails ends the call; "none"
\* when none does
HomeError(date_str, gw, load, columns) ==
    IF IsStr(date_str) THEN "ValueError"
    ELSE IF gw # "ok" THEN GatewayError(gw)
    ELSE IF load # "ok" THEN "FileNotFoundError"
    ELSE IF MissingColumns(columns) # {} THEN "ValueError"
    ELSE "none"

\* the log records of the functions home_page called: the gateway's, or
\* that of load_transactions (utils.py lines 35 and 38-40)
HomeCalleeLog(date_str, gw, load) ==
    IF IsStr(date_str) THEN <<>>
    ELSE IF gw # "ok" THEN GatewayLog(gw)
    ELSE IF load # "ok" THEN <<LogRec("error", "load failed")>>
    ELSE <<LogRec("info", "transactions loaded")>>

\* the table home_page loads is the table the caller holds: both are read
\* from operations.xlsx, whose columns are `columns`; line 38 converts the
\* dates of the loaded copy
home_page ==
    \E date_str \in HomeDateArgs, gw \in GatewayOutcomes, load \in LoadOutcomes,
       columns \in ColumnSets :
        LET error    == HomeError(date_str, gw, load, columns)
            filtered == WindowFiltered(Converted(transactions))
        IN  /\ Idle
            /\ call' = [op |-> "home_page", gw |-> gw, load |-> load, columns |-> columns,
                        args |-> [date_str |-> date_str]]
            /\ IF error # "none"
               THEN /\ result' = Raised(error)
                    /\ log' = Append(HomeCalleeLog(date_str, gw, load),
                                     LogRec("error", "home page failed"))
                    /\ locals' = NoLocals
               ELSE /\ result' = Returned([greeting |-> GetGreeting(date_str),
                                           cards |-> CardsData(filtered),
                                           top_transactions |-> TopTransList(filtered),
                                           currency_rates |-> "rates",
                                           stock_prices |-> "prices"])
                    /\ log' = HomeCalleeLog(date_str, gw, load)
                    /\ locals' = Locals(FixedStart, FixedEnd, filtered)
            /\ UNCHANGED <<transactions, transactions_list, report_file>>

InitViews ==
    /\ transactions \in HomeFrames
    /\ transactions_list = <<>>
    /\ call = NoCall
    /\ result = NoResult
    /\ log = <<>>
    /\ report_file = NoFile
    /\ locals = NoLocals

NextViews ==
    \/ home_page
    \/ events_page

SpecViews == InitViews /\ [][NextViews]_vars

---------------------------------------------------------------------------
(* The greeting and the loader called on their own: src/src/utils.py *)

\* the datetime arguments of get_greeting: every hour of three days, at the
\* first and at the last minute of the hour
GreetingDays == {<<2023, 1, 1>>, <<2021, 6, 15>>, <<2020, 2, 29>>}

GreetingTimes ==
    {[y |-> day[1], m |-> day[2], d |-> day[3], h |-> hour, mi |-> minute] :
        day \in GreetingDays, hour \in 0..23, minute \in {0, 59}}

get_greeting ==
    \E time \in GreetingTimes :
        /\ Idle
        /\ call' = [op |-> "get_greeting", args |-> [time |-> time]]
        /\ result' = Returned(GetGreeting(time))
        /\ log' = <<>>
        /\ UNCHANGED <<transactions, transactions_list, report_file, locals>>

\* os.getenv("TESTING"): "True", another value, or not set
TestingEnv == {"True", "False", "unset"}

\* the cell of a row of the file under a column; the cells of "Статус"
Cell(row, c) == IF c \in DOMAIN row THEN row[c] ELSE "OK"

\* pd.read_excel: the rows of the file under the columns the file has
ReadExcel(rows, columns) ==
    [columns |-> columns,
     rows |-> [i \in 1..Len(rows) |-> [c \in columns |-> Cell(rows[i], c)]]]

\* utils.py lines 29-40: without the test mode a path that does not exist
\* raises FileNotFoundError at line 33; with it pd.read_excel raises the
\* same for the missing file; the table is returned as it was read
LoadTransactions(testing, exists, columns, rows) ==
    IF testing # "True" /\ ~exists THEN Raised("FileNotFoundError")
    ELSE IF ~exists THEN Raised("FileNotFoundError")
    ELSE Returned(ReadExcel(rows, columns))

\* the file at file_path holds the rows of `transactions` under `columns`
load_transactions ==
    \E testing \in TestingEnv, exists \in BOOLEAN, columns \in ColumnSets :
        LET outcome == LoadTransactions(testing, exists, columns, transactions)
        IN  /\ Idle
            /\ call' = [op |-> "load_transactions", testing |-> testing,
                        exists |-> exists, columns |-> columns,
                        args |-> [file_path |-> "operations.xlsx"]]
            /\ result' = outcome
            /\ log' = IF outcome.kind = "raise"
                      THEN <<LogRec("error", "load failed")>>
                      ELSE <<LogRec("info", "transactions loaded")>>
            /\ UNCHANGED <<transactions, transactions_list, report_file, locals>>

InitUtils ==
    /\ transactions \in HomeFrames
    /\ transactions_list = <<>>
    /\ call = NoCall
    /\ result = NoResult
    /\ log = <<>>
    /\ report_file = NoFile
    /\ locals = NoLocals

NextUtils ==
    \/ get_greeting
    \/ load_transactions

SpecUtils == InitUtils /\ [][NextUtils]_vars

---------------------------------------------------------------------------
(* The search services: src/src/services.py *)

\* longest list of dicts handed to the search services
MaxSearch == 2

\* a Python str is a string of the model; its i-th character
Char(s, i) == SubSeq(s, i, i)

\* c in cls, for a class of characters written as the string of its members
InClass(c, cls) == \E i \in 1..Len(cls) : Char(cls, i) = c

UpperCase == "ABCDEFGHIJKLMNOPQRSTUVWXYZ"
LowerCase == "abcdefghijklmnopqrstuvwxyz"
Digits == "0123456789"

\* str.lower()
LowerChar(c) ==
    IF InClass(c, UpperCase)
    THEN Char(LowerCase, CHOOSE i \in 1..Len(UpperCase) : Char(UpperCase, i) = c)
    ELSE c

RECURSIVE Lower(_)
Lower(s) == IF Len(s) = 0 THEN "" ELSE LowerChar(Char(s, 1)) \o Lower(SubSeq(s, 2, Len(s)))

\* q in s, for two strings
Contains(q, s) == \E i \in 1..(Len(s) - Len(q) + 1) : SubSeq(s, i, i + Len(q) - 1) = q

\* a compiled pattern is a sequence of items: a class of characters taken
\* once, at most once (?) or once and more (+)
One(cls) == [cls |-> cls, q |-> "one"]
Opt(cls) == [cls |-> cls, q |-> "opt"]
Plus(cls) == [cls |-> cls, q |-> "plus"]

\* a pattern without metacharacters: its characters, one after the other
Literal(s) == [i \in 1..Len(s) |-> One(Char(s, i))]

\* r"\+7\s?\d{3}\s?\d{3}[-\s]?\d{2}[-\s]?\d{2}"
DefaultPhonePattern ==
    << One("+"), One("7"), Opt(" "), One(Digits), One(Digits), One(Digits),
       Opt(" "), One(Digits), One(Digits), One(Digits),
       Opt("- "), One(Digits), One(Digits), Opt("- "), One(Digits), One(Digits) >>

\* r"[А-Я][а-я]+\s[А-Я]\." (the Cyrillic letters are Latin ones here)
DefaultNamePattern ==
    << One(UpperCase), Plus(LowerCase), One(" "), One(UpperCase), One(".") >>

\* the items p[i..] match s from position j on
RECURSIVE MatchFrom(_, _, _, _)
MatchFrom(p, i, s, j) ==
    IF i > Len(p) THEN TRUE
    ELSE LET here == j <= Len(s) /\ InClass(Char(s, j), p[i].cls)
         IN  IF p[i].q = "one" THEN here /\ MatchFrom(p, i + 1, s, j + 1)
             ELSE IF p[i].q = "opt"
             THEN (here /\ MatchFrom(p, i + 1, s, j + 1)) \/ MatchFrom(p, i + 1, s, j)
             ELSE here /\ (MatchFrom(p, i, s, j + 1) \/ MatchFrom(p, i + 1, s, j + 1))

\* compiled_pattern.search(s) is not None
PatternSearch(p, s) == \E j \in 1..(Len(s) + 1) : MatchFrom(p, 1, s, j)

\* phone_pattern or default, name_pattern or default: None and "" are the
\* empty pattern here
PatternOr(pattern, default) == IF pattern = <<>> THEN default ELSE pattern

\* "Переводы"
Transfers == "Transfers"

\* the dicts the search lists are built from; a key left out is a key absent
SearchRecords ==
    { [category |-> "Transfers", description |-> "Ivanov A. +7 999 123-45-67"],
      [category |-> "Transfers", description |-> "to petrov"],
      [category |-> "Supermarkets", description |-> "Petrov S. shop"],
      [category |-> "Taxi", description |-> "Ride home"],
      [category |-> "transfers", description |-> "Ivanov A."],
      [category |-> "Transfers"],
      [category |-> "Taxi"],
      [description |-> "Ivanov A. +79991234567"],
      [invalid |-> "data"] }

SearchLists == SeqsUpTo(SearchRecords, MaxSearch)

QueryArgs == {"", "Ivanov", "ivanov", "PETROV", "Taxi", "transfers", "shop"}

PhonePatternArgs == {<<>>, Literal("Petrov")}
NamePatternArgs == {<<>>, Literal("Ivanov"), Literal("petrov"), Literal("Nobody")}


\* a slip: the transaction is kept whenever one of the two strings matches,
\* the case of the query left as given
QueryMatchesAsGiven(query, t, case_sensitive) ==
    Contains(query, t.description) \/ Contains(query, t.category)

\* services.py lines 111 and 116-123: the test simple_search makes on a
\* transaction that has both keys
QueryMatches(query, t, case_sensitive) ==
    LET search_query == IF case_sensitive THEN query ELSE Lower(query)
        description  == IF case_sensitive THEN t.description ELSE Lower(t.description)
        category     == IF case_sensitive THEN t.category ELSE Lower(t.category)
    IN  Contains(search_query, description) \/ Contains(search_query, category)

\* services.py lines 115-128: one pass of the loop body of simple_search
SimpleSearchStep(st, t, query, case_sensitive) ==
    IF ~Has(t, "description") \/ ~Has(t, "category")
    THEN LoopState(st.acc, Append(st.log, Skipped), "none")
    ELSE IF QueryMatches(query, t, case_sensitive)
    THEN LoopState(Append(st.acc, t), st.log, "none")
    ELSE st

RECURSIVE SimpleSearchLoop(_, _, _, _)
SimpleSearchLoop(st, txns, query, case_sensitive) ==
    IF txns = <<>> THEN st
    ELSE SimpleSearchLoop(SimpleSearchStep(st, Head(txns), query, case_sensitive),
                          Tail(txns), query, case_sensitive)

\* services.py lines 108-130
SimpleSearch(query, txns, case_sensitive) ==
    IF query = "" THEN LoopState(<<>>, <<>>, "none")
    ELSE SimpleSearchLoop(LoopState(<<>>, <<>>, "none"), txns, query, case_sensitive)

\* a slip: a record without a description is passed over in silence
PhoneSearchStepSilent(st, t, compiled_pattern) ==
    IF ~Has(t, "description") THEN st
    ELSE IF PatternSearch(compiled_pattern, t.description)
    THEN LoopState(Append(st.acc, t), st.log, "none")
    ELSE st

\* services.py lines 150-155: one pass of the loop body of phone_number_search
PhoneSearchStep(st, t, compiled_pattern) ==
    IF ~Has(t, "description") THEN LoopState(st.acc, Append(st.log, Skipped), "none")
    ELSE IF PatternSearch(compiled_pattern, t.description)
    THEN LoopState(Append(st.acc, t), st.log, "none")
    ELSE st

RECURSIVE PhoneSearchLoop(_, _, _)
PhoneSearchLoop(st, txns, compiled_pattern) ==
    IF txns = <<>> THEN st
    ELSE PhoneSearchLoop(PhoneSearchStep(st, Head(txns), compiled_pattern),
                         Tail(txns), compiled_pattern)

\* services.py lines 145-157
PhoneNumberSearch(txns, phone_pattern) ==
    PhoneSearchLoop(LoopState(<<>>, <<>>, "none"), txns,
                    PatternOr(phone_pattern, DefaultPhonePattern))

\* a slip: the category is not looked at
IsTransferAnyCategory(t) == TRUE

\* services.py line 178, the left operand of the and
IsTransfer(t) == t.category = Transfers

\* services.py lines 177-182: one pass of the loop body of
\* person_transfers_search; the description is read only once the category
\* has compared equal
PersonSearchStep(st, t, compiled_pattern) ==
    IF ~Has(t, "category") THEN LoopState(st.acc, Append(st.log, Skipped), "none")
    ELSE IF ~IsTransfer(t) THEN st
    ELSE IF ~Has(t, "description") THEN LoopState(st.acc, Append(st.log, Skipped), "none")
    ELSE IF PatternSearch(compiled_pattern, t.description)
    THEN LoopState(Append(st.acc, t), st.log, "none")
    ELSE st

RECURSIVE PersonSearchLoop(_, _, _)
PersonSearchLoop(st, txns, compiled_pattern) ==
    IF txns = <<>> THEN st
    ELSE PersonSearchLoop(PersonSearchStep(st, Head(txns), compiled_pattern),
                          Tail(txns), compiled_pattern)

\* services.py lines 172-184
PersonTransfersSearch(txns, name_pattern) ==
    PersonSearchLoop(LoopState(<<>>, <<>>, "none"), txns,
                     PatternOr(name_pattern, DefaultNamePattern))

simple_search ==
    \E query \in QueryArgs, case_sensitive \in BOOLEAN :
        LET st == SimpleSearch(query, transactions_list, case_sensitive)
        IN  /\ Idle
            /\ call' = [op |-> "simple_search",
                        args |-> [query |-> query, case_sensitive |-> case_sensitive]]
            /\ result' = Returned(st.acc)
            /\ log' = st.log
            /\ UNCHANGED <<transactions, transactions_list, report_file, locals>>

phone_number_search ==
    \E phone_pattern \in PhonePatternArgs :
        LET st == PhoneNumberSearch(transactions_list, phone_pattern)
        IN  /\ Idle
            /\ call' = [op |-> "phone_number_search",
                        args |-> [phone_pattern |-> phone_pattern]]
            /\ result' = Returned(st.acc)
            /\ log' = st.log
            /\ UNCHANGED <<transactions, transactions_list, report_file, locals>>

person_transfers_search ==
    \E name_pattern \in NamePatternArgs :
        LET st == PersonTransfersSearch(transactions_list, name_pattern)
        IN  /\ Idle
            /\ call' = [op |-> "person_transfers_search",
                        args |-> [name_pattern |-> name_pattern]]
            /\ result' = Returned(st.acc)
            /\ log' = st.log
            /\ UNCHANGED <<transactions, transactions_list, report_file, locals>>

InitSearch ==
    /\ transactions = <<>>
    /\ transactions_list \in SearchLists
    /\ call = NoCall
    /\ result = NoResult
    /\ log = <<>>
    /\ report_file = NoFile
    /\ locals = NoLocals

NextSearch ==
    \/ simple_search
    \/ phone_number_search
    \/ person_transfers_search

SpecSearch == InitSearch /\ [][NextSearch]_vars

---------------------------------------------------------------------------
(* Claims about the report layer, checked under SpecReports *)

Returns(op) == call.op = op /\ result.kind = "ok"

\* the calendar window 2018-01-01 .. 2021-12-31, both days included
DateInWindow(t) == 2018 <= t.y /\ t.y <= 2021

RECURSIVE SumAmounts(_, _)
SumAmounts(df, I) ==
    IF I = {} THEN 0
    ELSE LET i == CHOOSE j \in I : TRUE
         IN  df[i].amount + SumAmounts(df, I \ {i})

\* C1: whatever the collection, spending_by_workday returns exactly two
\* rows, one keyed "Workday" and one keyed "Weekend".
C1_WorkdayAlwaysTwoRows ==
    Returns("spending_by_workday") =>
        /\ Len(result.value) = 2
        /\ {result.value[i].key : i \in 1..Len(result.value)} = {"Workday", "Weekend"}

\* C2: for a non-empty collection and a category c, spending_by_category
\* returns one row per calendar month holding a transaction of category c
\* dated inside the window (both end days included), and the monthly totals
\* add up to the amounts of exactly those transactions.
C2_CategoryMonthsAndTotals ==
    (Returns("spending_by_category") /\ transactions # <<>>) =>
        LET matching == {i \in 1..Len(transactions) :
                            /\ transactions[i].category = call.args.category
                            /\ DateInWindow(transactions[i].date)}
            months   == {ToPeriodM(transactions[i].date) : i \in matching}
            rows     == result.value
        IN  /\ Len(rows) = Cardinality(months)
            /\ {rows[i].key : i \in 1..Len(rows)} = months
            /\ SumSeq([i \in 1..Len(rows) |-> rows[i].value]) = SumAmounts(transactions, matching)

---------------------------------------------------------------------------
(* Claims about events_page, checked under SpecEvents *)

RECURSIVE SumOver(_, _)
SumOver(S, f) ==
    IF S = {} THEN 0
    ELSE LET x == CHOOSE y \in S : TRUE
         IN  f[x] + SumOver(S \ {x}, f)

Min(a, b) == IF a < b THEN a ELSE b

\* the positive amounts of a frame, summed per category
ExpenseCategories(f) == {f[i].category : i \in {j \in 1..Len(f) : f[j].amount > 0}}

ExpenseOf(f, c) ==
    SumAmounts(f, {i \in 1..Len(f) : f[i].category = c /\ f[i].amount > 0})

InCallWindow(df) ==
    {i \in 1..Len(df) : /\ TsLE(locals.start_date, df[i].date)
                        /\ TsLE(df[i].date, locals.end_date)}

\* C4: with range "ALL", expenses.total_amount is the rounded sum of the
\* positive amounts in the window and income.total_amount the rounded
\* absolute value of the sum of the negative amounts in the window; both
\* are 0 with empty main lists when the collection is empty.
C4_AllRangeTotals ==
    (Returns("events_page") /\ call.args.date_range = "ALL") =>
        LET inside == InCallWindow(transactions)
            pos    == {i \in inside : transactions[i].amount > 0}
            neg    == {i \in inside : transactions[i].amount < 0}
        IN  /\ result.value.expenses.total_amount = RoundInt(SumAmounts(transactions, pos))
            /\ result.value.income.total_amount = RoundInt(Abs(SumAmounts(transactions, neg)))
            /\ transactions = <<>> =>
                    /\ result.value.expenses.main = <<>>
                    /\ result.value.income.main = <<>>

\* the values of date_range the code names
NamedRanges == {"ALL", "Y", "M"}

WeekStart(t) == Ts(t.y, t.m, t.d - DayOfWeek(t), 0)

\* C6: the window start is derived from as_of_date: the start of its week
\* for "W", the first day of its month for "M", the first day of its year
\* for "Y", and no row is cut off at the start for "ALL".
C6_StartFollowsAsOfDate ==
    Returns("events_page") =>
        LET as_of == call.args.date_str
            range == call.args.date_range
            start == locals.start_date
        IN  /\ range = "W" => start = WeekStart(as_of)
            /\ range = "M" => start = Ts(as_of.y, as_of.m, 1, 0)
            /\ range = "Y" => start = Ts(as_of.y, 1, 1, 0)
            /\ range = "ALL" => \A r \in Range(transactions) : TsLE(start, r.date)

---------------------------------------------------------------------------
(* Claims about the services, checked under SpecServices *)

InRange(year) == 2018 <= year /\ year <= 2021

\* the records of the list dated (by a date that parses) in year-month
DatedIn(txns, year, month) ==
    {i \in 1..Len(txns) : /\ Has(txns[i], "date")
                          /\ txns[i].date.t = "iso"
                          /\ txns[i].date.y = year
                          /\ txns[i].date.m = month}

\* those of them that are expenses: a numeric amount > 0
ExpensesIn(txns, year, month) ==
    {i \in DatedIn(txns, year, month) : /\ Has(txns[i], "amount")
                                        /\ txns[i].amount.t = "num"
                                        /\ txns[i].amount.v > 0}

\* limit - (amount mod limit) when amount mod limit > 0, else 0
RoundUp(amount, limit) ==
    IF amount % (limit * 100) > 0 THEN limit * 100 - (amount % (limit * 100)) ELSE 0

RoundUpTotal(txns, I, limit) ==
    SumOver(I, [i \in I |-> RoundUp(txns[i].amount.v, limit)])

\* C7: investment_bank returns the sum, over exactly the expenses dated in
\* the year-month given, of limit - (amount mod limit) when that remainder
\* is > 0 and of 0 otherwise.
C7_SavingsOfGivenMonth ==
    Returns("investment_bank") =>
        result.value = RoundUpTotal(transactions_list,
                                    ExpensesIn(transactions_list, call.args.month[1].v,
                                               call.args.month[2].v),
                                    call.args.rounding_limit)

\* C7, amended: the same sum, over the expenses dated in the month given of
\* the year given, the year being read as 2021 when it lies outside
\* [2018, 2021].
C7_SavingsOfClampedMonth ==
    Returns("investment_bank") =>
        LET given == call.args.month[1].v
            year  == IF InRange(given) THEN given ELSE 2021
        IN  result.value = RoundUpTotal(transactions_list,
                                        ExpensesIn(transactions_list, year,
                                                   call.args.month[2].v),
                                        call.args.rounding_limit)

\* C7's case: 1000.00 and 1030.00 rounded up to 50 save 0 and 20.00, and an
\* income of the same month saves nothing
C7_Witness ==
    /\ Returns("investment_bank")
    /\ call.args.rounding_limit = 50
    /\ result.value = 2000
    /\ \E i \in 1..Len(transactions_list) :
            /\ Has(transactions_list[i], "amount")
            /\ transactions_list[i].amount \in {Number(100000), Number(-50000)}

\* the month strings that parse as year-month with 1 <= month <= 12
WellFormedMonth(month) ==
    /\ Len(month) = 2
    /\ \A i \in 1..Len(month) : month[i].t = "int"
    /\ 1 <= month[2].v /\ month[2].v <= 12

\* C8: investment_bank raises ValueError, whatever the collection, exactly
\* when rounding_limit <= 0 or the month string does not parse as
\* year-month with 1 <= month <= 12; a year outside [2018, 2021] is no such
\* error: the call then does what the call for 2021 does.
C8_InvalidArgumentsRaise ==
    call.op = "investment_bank" =>
        LET month == call.args.month
            limit == call.args.rounding_limit
        IN  IF limit <= 0 \/ ~WellFormedMonth(month)
            THEN result = Raised("ValueError")
            ELSE /\ result # Raised("ValueError")
                 /\ ~InRange(month[1].v) =>
                        result = InvestmentBank(<<IntPart(2021), month[2]>>,
                                                transactions_list, limit).result

\* C8's case: a non-empty collection, a month that parses, a limit <= 0
C8_Witness ==
    /\ call.op = "investment_bank"
    /\ transactions_list # <<>>
    /\ WellFormedMonth(call.args.month)
    /\ call.args.rounding_limit <= 0
    /\ result = Raised("ValueError")

\* the records of year-month that bring a cashback > 0 to a category
CashbackIn(txns, year, month) ==
    {i \in DatedIn(txns, year, month) : /\ Has(txns[i], "category")
                                        /\ Has(txns[i], "cashback")
                                        /\ txns[i].cashback.t = "num"
                                        /\ txns[i].cashback.v > 0}

CashbackMapping(txns, I) ==
    [c \in {txns[i].category : i \in I} |->
        SumOver({i \in I : txns[i].category = c}, [i \in I |-> txns[i].cashback.v])]

ClampWarnings == Cardinality({i \in 1..Len(log) : log[i] = YearClamped})

Malformed(op, t) ==
    \/ ~Has(t, "date")
    \/ t.date.t # "iso"
    \/ IF op = "investment_bank"
       THEN ~Has(t, "amount") \/ t.amount.t # "num"
       ELSE ~Has(t, "category") \/ (Has(t, "cashback") /\ t.cashback.t # "num")

\* C11: a malformed record (a null amount or cashback included) never
\* aborts profitable_cashback_categories or investment_bank: the call ends
\* as the call on the collection without the malformed records ends, and
\* nothing but the ValueError of a bad argument is ever raised.
C11_MalformedRecordsSkipped ==
    call.op \in {"profitable_cashback_categories", "investment_bank"} =>
        LET clean    == SelectSeq(transactions_list, LAMBDA t : ~Malformed(call.op, t))
            expected == IF call.op = "investment_bank"
                        THEN InvestmentBank(call.args.month, clean,
                                            call.args.rounding_limit).result
                        ELSE ProfitableCashbackCategories(clean, call.args.year,
                                                          call.args.month).result
        IN  /\ result = expected
            /\ result.kind = "raise" => result.error = "ValueError"


---------------------------------------------------------------------------
(* Claims about the search services, checked under SpecSearch *)

\* the string under key k of t holds q, both lowered unless case_sensitive
FieldHolds(t, k, q, case_sensitive) ==
    /\ Has(t, k)
    /\ IF case_sensitive THEN Contains(q, t[k]) ELSE Contains(Lower(q), Lower(t[k]))

QueryHit(t, q, case_sensitive) ==
    FieldHolds(t, "description", q, case_sensitive)
        \/ FieldHolds(t, "category", q, case_sensitive)

\* C12: simple_search returns, in input order, exactly the transactions
\* whose description or category holds the query (lowered on both sides
\* unless case_sensitive), and the empty list for the empty query.
C12_SimpleSearchExact ==
    call.op = "simple_search" =>
        LET q == call.args.query
            cs == call.args.case_sensitive
        IN  result = Returned(IF q = "" THEN <<>>
                              ELSE SelectSeq(transactions_list,
                                             LAMBDA t : QueryHit(t, q, cs)))

\* C12, amended: the same, among the transactions that have both a
\* description and a category; a transaction without one of the two keys is
\* never returned, whatever its other string holds.
C12_SimpleSearchAmongComplete ==
    call.op = "simple_search" =>
        LET q == call.args.query
            cs == call.args.case_sensitive
        IN  result = Returned(IF q = "" THEN <<>>
                              ELSE SelectSeq(transactions_list,
                                             LAMBDA t : /\ Has(t, "description")
                                                        /\ Has(t, "category")
                                                        /\ QueryHit(t, q, cs)))

\* C12's case: a query in capitals found, case left aside, in one of two
\* transactions
C12_Witness ==
    /\ call.op = "simple_search"
    /\ call.args.query = "PETROV"
    /\ ~call.args.case_sensitive
    /\ Len(transactions_list) = 2
    /\ Len(result.value) = 1

\* C13: every transaction person_transfers_search returns has the category
\* "Transfers" exactly and a description the pattern (the default one or the
\* caller's) matches.
C13_OnlyTransfersReturned ==
    call.op = "person_transfers_search" =>
        LET pattern == IF call.args.name_pattern = <<>> THEN DefaultNamePattern
                       ELSE call.args.name_pattern
        IN  /\ result.kind = "ok"
            /\ \A i \in 1..Len(result.value) :
                    /\ Has(result.value[i], "category")
                    /\ result.value[i].category = "Transfers"
                    /\ Has(result.value[i], "description")
                    /\ PatternSearch(pattern, result.value[i].description)
                    /\ result.value[i] \in Range(transactions_list)

\* C13's case: a transfer returned from a list that also holds a
\* transaction of another category whose description matches the pattern
C13_Witness ==
    /\ call.op = "person_transfers_search"
    /\ call.args.name_pattern = <<>>
    /\ Len(result.value) = 1
    /\ \E t \in Range(transactions_list) :
            /\ Has(t, "category") /\ t.category # "Transfers"
            /\ Has(t, "description") /\ PatternSearch(DefaultNamePattern, t.description)

SearchOps == {"simple_search", "phone_number_search", "person_transfers_search"}

\* the keys a search function inspects
Inspected(op) ==
    IF op = "phone_number_search" THEN {"description"} ELSE {"description", "category"}

Lacking(op, t) == \E k \in Inspected(op) : ~Has(t, k)

\* what the call made returns on another list
SearchAgain(txns) ==
    IF call.op = "simple_search"
    THEN SimpleSearch(call.args.query, txns, call.args.case_sensitive).acc
    ELSE IF call.op = "phone_number_search"
    THEN PhoneNumberSearch(txns, call.args.phone_pattern).acc
    ELSE PersonTransfersSearch(txns, call.args.name_pattern).acc

\* C14: no search function fails on a record that lacks a key it inspects:
\* the record is left out, one warning is logged for each such record, and
\* the result is that of the other records.
C14_LackingRecordsWarned ==
    call.op \in SearchOps =>
        LET lacking == {i \in 1..Len(transactions_list) :
                            Lacking(call.op, transactions_list[i])}
            others  == SelectSeq(transactions_list, LAMBDA t : ~Lacking(call.op, t))
        IN  /\ result.kind = "ok"
            /\ \A i \in 1..Len(result.value) : ~Lacking(call.op, result.value[i])
            /\ result.value = SearchAgain(others)
            /\ Len(log) = Cardinality(lacking)
            /\ \A i \in 1..Len(log) : log[i] = Skipped

\* the records on which the call made looks up a key that is absent:
\* none on an empty query; in person_transfers_search the description of a
\* record is looked up only when its category is "Transfers"
LookedUpAbsent(t) ==
    IF call.op = "simple_search" THEN call.args.query # "" /\ Lacking(call.op, t)
    ELSE IF call.op = "phone_number_search" THEN Lacking(call.op, t)
    ELSE ~Has(t, "category") \/ (t.category = "Transfers" /\ ~Has(t, "description"))

\* C14, amended: no search function fails on a record that lacks a key it
\* inspects; the record is left out and the result is that of the other
\* records; one warning is logged for each record on which a key was
\* looked up and found absent, which leaves without a warning the records
\* of an empty-query simple_search and, in person_transfers_search, the
\* records of another category that lack a description.
C14_LookedUpRecordsWarned ==
    call.op \in SearchOps =>
        LET warned == {i \in 1..Len(transactions_list) :
                            LookedUpAbsent(transactions_list[i])}
            others == SelectSeq(transactions_list, LAMBDA t : ~Lacking(call.op, t))
        IN  /\ result.kind = "ok"
            /\ \A i \in 1..Len(result.value) : ~Lacking(call.op, result.value[i])
            /\ result.value = SearchAgain(others)
            /\ Len(log) = Cardinality(warned)
            /\ \A i \in 1..Len(log) : log[i] = Skipped

\* C14's case: a transfer without a description and a taxi ride without
\* one, and one warning
C14_Witness ==
    /\ call.op = "person_transfers_search"
    /\ Len(transactions_list) = 2
    /\ \A t \in Range(transactions_list) : Has(t, "category") /\ ~Has(t, "description")
    /\ \E t \in Range(transactions_list) : t.category = "Transfers"
    /\ \E t \in Range(transactions_list) : t.category = "Taxi"
    /\ result = Returned(<<>>)
    /\ Len(log) = 1


---------------------------------------------------------------------------
(* Claims about the report wrapper and the inputs of the report functions *)

ReportOps == {"spending_by_category", "spending_by_weekday", "spending_by_workday"}

\* the rows the report function of the call returns on the frame df
ReportRowsOf(df) ==
    IF call.op = "spending_by_category"
    THEN SpendingByCategoryRows(df, call.args.category, call.args.date)
    ELSE IF call.op = "spending_by_weekday" THEN SpendingByWeekdayRows(df, call.args.date)
    ELSE SpendingByWorkdayRows(df, call.args.date)

\* C15: a report-wrapped operation hands the caller the value the wrapped
\* operation returned, whatever happens to the report: a failure to create
\* the directory, to open the file or to write it is logged and goes no
\* further.
C15_ReportFailuresOnlyLogged ==
    (call.op \in ReportOps /\ call.args.transactions = "DataFrame") =>
        /\ result = Returned(ReportRowsOf(transactions))
        /\ call.io # "ok" =>
                /\ \E i \in 1..Len(log) : log[i].level = "error"
                /\ report_file = NoFile

\* C16: no call changes the collection it was given: the caller's DataFrame
\* and list are after every step what they were before it.
C16_InputsUnchanged == [][UNCHANGED <<transactions, transactions_list>>]_vars

\* C17: when the frame holds a record whose date reads as no date, the
\* report call completes and returns the aggregate of the other records.
C17_UnparsableDatesExcluded ==
    (/\ call.op \in ReportOps
     /\ call.args.transactions = "DataFrame"
     /\ \E i \in 1..Len(transactions) : Unparsable(transactions[i].date)) =>
        LET others == SelectSeq(transactions, LAMBDA r : ~Unparsable(r.date))
        IN  result = Returned(ReportRowsOf(Converted(others)))

\* C18: a report call whose first argument is no DataFrame raises the error
\* of the failed access (TypeError; KeyError for a mapping without the
\* columns), logs it before it leaves, returns nothing and writes no report
\* file.
C18_NotAFrameRaises ==
    (call.op \in ReportOps /\ call.args.transactions # "DataFrame") =>
        /\ result = Raised(IF call.args.transactions = "dict" THEN "KeyError"
                                                              ELSE "TypeError")
        /\ log = <<LogRec("error", "report function failed")>>
        /\ report_file = NoFile

\* C18's case: spending_by_weekday("invalid_data") with a file system that
\* would have taken the report
C18_Witness ==
    /\ call.op = "spending_by_weekday"
    /\ call.args.transactions = "str"
    /\ call.io = "ok"
    /\ transactions # <<>>
    /\ result = Raised("TypeError")

---------------------------------------------------------------------------
(* Claims about the views *)

ViewOps == {"home_page", "events_page"}

\* the view of the state asked the gateway, and one of its two calls failed
GatewayCallFailed ==
    /\ call.op \in ViewOps
    /\ call.gw \in {"currency_rates_fails", "stock_prices_fails"}
    /\ call.op = "home_page" => ~IsStr(call.args.date_str)

\* the records the gateway wrote to the log
GatewayRecords ==
    SelectSeq(log, LAMBDA r : r.msg \in {"currency rates failed", "stock prices failed"})

\* C19: in home_page and events_page a failure of the currency rates call
\* or of the stock prices call makes the view call fail with that same
\* error: RequestException from the currency call, Timeout from the stock
\* call, and no payload is returned; the view logs the error as the last
\* record before it leaves, and the gateway was asked once: the log holds
\* one record of the failed call.
C19_GatewayFailureFailsView ==
    GatewayCallFailed =>
        /\ result = Raised(IF call.gw = "currency_rates_fails"
                           THEN "RequestException" ELSE "Timeout")
        /\ "value" \notin DOMAIN result
        /\ log # <<>>
        /\ log[Len(log)] = LogRec("error", IF call.op = "home_page"
                                           THEN "home page failed"
                                           ELSE "events page failed")
        /\ Len(GatewayRecords) = 1
        /\ Len(log) = 2

\* the stock prices call fails in home_page over a table with rows
C19_Witness ==
    /\ GatewayCallFailed
    /\ call.op = "home_page"
    /\ call.gw = "stock_prices_fails"
    /\ transactions # <<>>
    /\ result = Raised("Timeout")

\* the rows of the table dated inside the window 2018-01-01 .. 2021-12-31,
\* both days included, that carry a card
InWindowCardRows ==
    {i \in 1..Len(transactions) :
        /\ DateInWindow(transactions[i].date)
        /\ transactions[i].card.t # "none"}

\* the entry the claim gives the card number: the last four characters,
\* the sums of the amounts and of the cashback of its rows in the window
CardEntry(number) ==
    LET rows == {i \in InWindowCardRows : transactions[i].card.v = number}
    IN  [last_digits |-> IF Len(number) <= 4 THEN number
                         ELSE SubSeq(number, Len(number) - 3, Len(number)),
         total_spent |-> SumOver(rows, [i \in rows |-> transactions[i].amount]),
         cashback |-> SumOver(rows, [i \in rows |-> transactions[i].cashback])]

\* C20: the cards list of home_page has exactly one entry per distinct
\* non-null card number among the transactions inside the window; the
\* entry's last_digits is the last 4 characters of the number, or the whole
\* number when it has 4 characters or fewer, its total_spent is the sum of
\* the amounts of that card's transactions in the window and its cashback
\* the sum of their cashback (sums of hundredths, which rounding to 2
\* decimals leaves as they are).
C20_CardsPerDistinctNumber ==
    Returns("home_page") =>
        LET cards   == result.value.cards
            numbers == {transactions[i].card.v : i \in InWindowCardRows}
        IN  /\ Len(cards) = Cardinality(numbers)
            /\ \A number \in numbers :
                  Cardinality({k \in 1..Len(cards) : cards[k] = CardEntry(number)})
                    = Cardinality({n \in numbers : CardEntry(n) = CardEntry(number)})

\* the rows of the table dated inside the window 2018-01-01 .. 2021-12-31,
\* both days included
InWindowRows == {i \in 1..Len(transactions) : DateInWindow(transactions[i].date)}

\* the entry of top_transactions that renders a row of the table
TopEntry(row) ==
    [date |-> [d |-> row.date.d, m |-> row.date.m, y |-> row.date.y],
     amount |-> row.amount, category |-> row.category, description |-> row.description]

\* C21: the top_transactions list of home_page has min(5, n) entries, n the
\* number of transactions inside the window; every entry renders a
\* transaction of the window, none twice; the entries are listed in
\* non-increasing order of amount, negative amounts included when fewer
\* than 5 positive ones exist; and every transaction of the window with a
\* larger amount than an entry is itself in the list.
C21_TopTransactionsLargest ==
    Returns("home_page") =>
        LET top == result.value.top_transactions
        IN  /\ Len(top) = Min(5, Cardinality(InWindowRows))
            /\ \A k \in 1..(Len(top) - 1) : top[k].amount >= top[k + 1].amount
            /\ \A k \in 1..Len(top) :
                  Cardinality({j \in 1..Len(top) : top[j] = top[k]})
                    <= Cardinality({i \in InWindowRows : TopEntry(transactions[i]) = top[k]})
            /\ \A i \in InWindowRows :
                  (\E k \in 1..Len(top) : transactions[i].amount > top[k].amount) =>
                      Cardinality({j \in 1..Len(top) : top[j].amount = transactions[i].amount})
                        = Cardinality({n \in InWindowRows :
                                          transactions[n].amount = transactions[i].amount})

---------------------------------------------------------------------------
(* Claims about the greeting, the loader and the columns of the table *)

\* C22: get_greeting returns for every hour 0..23 exactly one greeting:
\* "good morning" for the hours 5-11, "good afternoon" for 12-16, "good
\* evening" for 17-22 and "good night" for 23 and 0-4, whatever the day and
\* the minute of the datetime.
C22_GreetingByHour ==
    call.op = "get_greeting" =>
        LET hour == call.args.time.h
        IN  /\ hour \in 0..23
            /\ result.kind = "ok"
            /\ hour \in 5..11 => result.value = "good morning"
            /\ hour \in 12..16 => result.value = "good afternoon"
            /\ hour \in 17..22 => result.value = "good evening"
            /\ hour \in {23} \cup 0..4 => result.value = "good night"

\* noon, at the last minute of the hour, is greeted as the afternoon
C22_Witness ==
    /\ call.op = "get_greeting"
    /\ call.args.time.h = 12
    /\ call.args.time.mi = 59
    /\ result = Returned("good afternoon")

\* home_page read its settings, asked the gateway and loaded the table
ReachedColumnCheck ==
    /\ call.op = "home_page"
    /\ ~IsStr(call.args.date_str)
    /\ call.gw = "ok"
    /\ call.load = "ok"

\* the table has the six columns home_page needs
AllSixPresent(columns) ==
    {"date", "card", "amount", "cashback", "category", "description"} \subseteq columns

\* C23: home_page fails with the shape error, ValueError in this code,
\* whenever the table it loaded lacks one of the columns date, card number,
\* amount, cashback, category, description: the error is logged as the last
\* record before it leaves and no payload is returned; with all six columns
\* present the call returns its payload.
C23_MissingColumnFails ==
    ReachedColumnCheck =>
        IF AllSixPresent(call.columns)
        THEN result.kind = "ok"
        ELSE /\ result = Raised("ValueError")
             /\ "value" \notin DOMAIN result
             /\ log # <<>>
             /\ log[Len(log)] = LogRec("error", "home page failed")

\* a table with rows and every column but the cashback
C23_Witness ==
    /\ ReachedColumnCheck
    /\ "cashback" \notin call.columns
    /\ transactions # <<>>
    /\ result = Raised("ValueError")

\* C24: load_transactions fails with the not-found error when the path does
\* not exist and the test mode is not set, fails with a format error when
\* the file exists and lacks one of the required columns, and returns a
\* table only when the six required columns are present.
C24_LoaderChecksPathAndColumns ==
    call.op = "load_transactions" =>
        /\ (~call.exists /\ call.testing # "True") => result = Raised("FileNotFoundError")
        /\ (call.exists /\ ~AllSixPresent(call.columns)) => result.kind = "raise"
        /\ result.kind = "ok" => AllSixPresent(call.columns)

---------------------------------------------------------------------------
(* Claims about the windows *)

\* the rows dated from the first to the last day of the window of the
\* events_page call, both days included
InEventsWindow ==
    {i \in 1..Len(transactions) :
        /\ TsLE(locals.start_date, transactions[i].date)
        /\ TsLE([transactions[i].date EXCEPT !.h = 0], locals.end_date)}

\* C25: every transaction counted by events_page in its expenses and income
\* is dated inside the selected window, both ends inclusive: the two totals
\* are the sums over the transactions of the window alone, and every
\* category listed is the category of a transaction of the window, so that
\* no transaction dated after the end date or before the start date
\* contributes to a total or to a category amount.
C25_EventsOnlyInsideWindow ==
    Returns("events_page") =>
        LET pos == {i \in InEventsWindow : transactions[i].amount > 0}
            neg == {i \in InEventsWindow : transactions[i].amount < 0}
            expenses == result.value.expenses
            income   == result.value.income
        IN  /\ expenses.total_amount = RoundInt(SumAmounts(transactions, pos))
            /\ income.total_amount = RoundInt(Abs(SumAmounts(transactions, neg)))
            /\ \A k \in 1..Len(expenses.main) :
                  expenses.main[k].category # "Other" =>
                      \E i \in pos : transactions[i].category = expenses.main[k].category
            /\ \A k \in 1..Len(income.main) :
                  \E i \in neg : transactions[i].category = income.main[k].category

\* the rows of the table inside the window whose date falls on the weekday
OnWeekday(name) ==
    {i \in InWindowRows : DayNames[DayOfWeek(transactions[i].date) + 1] = name}

\* C26: spending_by_weekday returns exactly one row for each weekday name on
\* which a transaction of the window falls and no row for another weekday;
\* the value of a row is the arithmetic mean of the amounts of the
\* transactions of the window on that weekday, so that transactions outside
\* the window change neither the rows nor a mean.
C26_WeekdayMeansInsideWindow ==
    Returns("spending_by_weekday") =>
        LET rows  == result.value
            names == {name \in Range(DayNames) : OnWeekday(name) # {}}
        IN  /\ Len(rows) = Cardinality(names)
            /\ {rows[k].key : k \in 1..Len(rows)} = names
            /\ \A k \in 1..Len(rows) :
                  rows[k].value = Num(SumAmounts(transactions, OnWeekday(rows[k].key)),
                                      Cardinality(OnWeekday(rows[k].key)))

\* what the report call of the state returns or raises when it is given the
\* date argument `date` in place of its own
ReportResultWith(date) ==
    LET passed == call.args.transactions
        body   == IF call.op = "spending_by_category"
                  THEN SpendingByCategoryBody(passed, transactions, call.args.category, date)
                  ELSE IF call.op = "spending_by_weekday"
                  THEN SpendingByWeekdayBody(passed, transactions, date)
                  ELSE SpendingByWorkdayBody(passed, transactions, date)
    IN  Wrapped(call.op, body, call.io, NoFile).result

\* C27: the result of spending_by_category, spending_by_weekday and
\* spending_by_workday does not depend on the optional date argument: the
\* call gives the same result with every other value of date, no date
\* included, and its window is the fixed range from 2018-01-01 to
\* 2021-12-31 whatever the date.
C27_DateArgumentIgnored ==
    call.op \in ReportOps =>
        /\ \A date \in DateArgs : ReportResultWith(date) = result
        /\ locals.start_date = Ts(2018, 1, 1, 0)
        /\ locals.end_date = Ts(2021, 12, 31, 0)

\* a weekday report asked with a date, over rows on both sides of that date
C27_Witness ==
    /\ Returns("spending_by_weekday")
    /\ call.args.date = "2019-02-01"
    /\ \E i \in 1..Len(transactions) : transactions[i].date.y = 2018
    /\ \E i \in 1..Len(transactions) : transactions[i].date = Ts(2021, 1, 15, 0)
    /\ Len(result.value) = 2

===========================================================================
